---- MODULE Spec2Model ----
(***************************************************************************)
(* The script runtime host of gum/gumscript.cpp: the process-wide engine   *)
(* runtime (one isolate behind a g_once), the per-script context lifecycle *)
(* (gum_script_from_string / load / unload / dispose), the execution scope *)
(* (ScriptScope) and the debug bridge.                                     *)
(*                                                                         *)
(* Host threads run the functions of the file step by step: pc[t] is the   *)
(* thread's position, ret[t] its stack of return positions.  A step is one *)
(* lock operation, one access to a field that another thread can see, or   *)
(* one run of calls to an external collaborator (the 11 bindings, the      *)
(* engine).  Every call to a collaborator is appended to log[i], the       *)
(* record a test double of that script instance would keep.                *)
(***************************************************************************)
EXTENDS Integers, Sequences, FiniteSets, TLC

\* ------------------------------------------------------------- bounds
MaxSrcLen == 2
MaxCalls == 4
MaxConcSrcLen == 1
MaxConcCalls == 3
MaxThreadCalls == 2
MaxTasks == 3
NumInstances == 2

\* ------------------------------------------------- program constants
GUM_SCRIPT_RUNTIME_SOURCE_LINE_COUNT == 1
NumBindings == 11

NULL == 0

Threads == {"main", "worker"}
MainThread == "main"
NoThread == "nobody"
Instances == 1..NumInstances

\* The bindings of _GumScriptPrivate, in declaration (and init) order.
BindingOrder ==
  <<"core", "memory", "process", "thread", "module", "file", "socket",
    "interceptor", "stalker", "symbol", "instruction">>

Bindings == {BindingOrder[k] : k \in 1..NumBindings}

\* ------------------------------------------------------ source texts
\* A source text is a string over four kinds of character: a statement that
\* compiles and runs, a token the compiler rejects, a statement that throws
\* when it runs, and a newline.
NL == "\n"
STMT == "s"
SYNTAX_ERROR == "!"
THROW == "t"
Chars == {STMT, SYNTAX_ERROR, THROW, NL}

Sources == UNION {[1..n -> Chars] : n \in 0..MaxSrcLen}

\* The source texts of the runs with two host threads.
ConcSources == UNION {[1..n -> Chars] : n \in 0..MaxConcSrcLen}

\* #include "gumscript-runtime.h": the bootstrap, one line of text that
\* compiles and does not throw (GUM_SCRIPT_RUNTIME_SOURCE_LINE_COUNT lines).
RuntimeSource == <<STMT>>

\* The bootstrap and the source joined without the newline between them.
CombinedSource_no_newline(source) == RuntimeSource \o source

\* g_strconcat (runtime, "\n", priv->source, NULL)
CombinedSource(source) == RuntimeSource \o <<NL>> \o source

\* Message::GetLineNumber: the 1-based line of position p of the text.
GetLineNumber(text, p) == 1 + Cardinality({k \in 1..(p - 1) : text[k] = NL})

Positions(text, c) == {p \in 1..Len(text) : text[p] = c}

FirstPosition(text, c) ==
  CHOOSE p \in Positions(text, c) : \A q \in Positions(text, c) : p <= q

\* Script::Compile: 0 when the text compiles (a script handle), else the
\* engine's line number of the first rejected token.
Compile(text) ==
  IF Positions(text, SYNTAX_ERROR) = {} THEN 0
  ELSE GetLineNumber(text, FirstPosition(text, SYNTAX_ERROR))

\* Script::Run under a TryCatch: 0 when nothing was thrown, else the
\* engine's line number of the statement that threw.
Run(text) ==
  IF Positions(text, THROW) = {} THEN 0
  ELSE GetLineNumber(text, FirstPosition(text, THROW))

\* ------------------------------------------------------------- state
VARIABLES
  init_once,          \* GOnce of gum_script_runtime_get_isolate
  once_retval,        \* init_once.retval: the isolate
  isolates,           \* number of Isolate::New calls so far
  isolate_state,      \* "none", "entered", "disposed"
  gum_scheduler,      \* NULL or the scheduler
  gum_platform,       \* NULL or [main_context |-> thread whose loop it is]
  destructors,        \* number of _gum_register_destructor calls
  tasks,              \* the tasks the engine handed to gum_platform
  gum_debug_handler,  \* NULL or the registered handler
  gum_debug_data,
  gum_debug_notify,
  gum_debug_context,  \* NULL or the retained debug context
  v8_message_handler, \* what Debug::SetMessageHandler last installed
  dlog,               \* calls to the debug collaborators, in order
  locker,             \* the thread holding the isolate's Locker, if any
  obj,                \* per instance: "none", "alive", "freed"
  priv,               \* per instance: _GumScriptPrivate
  owner,              \* per instance: the thread that created it
  log,                \* per instance: calls to its collaborators, in order
  handles,            \* number of engine handles (contexts, scripts) made
  calls,              \* number of host API calls made
  pc, ret, op, self, arg, rv, trycatch, error, result

vars ==
  <<init_once, once_retval, isolates, isolate_state, gum_scheduler,
    gum_platform, destructors, tasks, gum_debug_handler, gum_debug_data,
    gum_debug_notify, gum_debug_context, v8_message_handler, dlog, locker,
    obj, priv, owner, log, handles, calls,
    pc, ret, op, self, arg, rv, trycatch, error, result>>

runtimeVars ==
  <<init_once, once_retval, isolates, isolate_state, gum_scheduler,
    gum_platform, destructors, tasks>>

debugVars ==
  <<gum_debug_handler, gum_debug_data, gum_debug_notify, gum_debug_context,
    v8_message_handler, dlog>>

instVars == <<obj, priv, owner, log, handles>>

localVars == <<op, self, arg, rv, trycatch, error, result>>

NoError == [set |-> FALSE, line |-> 0]
NoArg == [source |-> <<>>, errp |-> FALSE, func |-> NULL, data |-> NULL,
          notify |-> NULL]
NoResult ==
  [op |-> "none", inst |-> NULL, arg |-> NoArg, rv |-> NULL,
   error |-> NoError]

\* The zero-filled private data of a new GObject instance.
ZeroPriv ==
  [source |-> <<>>, isolate |-> NULL,
   bindings |-> [b \in Bindings |-> "uninit"],
   context |-> NULL, raw_script |-> NULL, loaded |-> FALSE]

Init ==
  /\ init_once = "NOTCALLED"
  /\ once_retval = NULL
  /\ isolates = 0
  /\ isolate_state = "none"
  /\ gum_scheduler = NULL
  /\ gum_platform = NULL
  /\ destructors = 0
  /\ tasks = <<>>
  /\ gum_debug_handler = NULL
  /\ gum_debug_data = NULL
  /\ gum_debug_notify = NULL
  /\ gum_debug_context = NULL
  /\ v8_message_handler = "nullptr"
  /\ dlog = <<>>
  /\ locker = NoThread
  /\ obj = [i \in Instances |-> "none"]
  /\ priv = [i \in Instances |-> ZeroPriv]
  /\ owner = [i \in Instances |-> NoThread]
  /\ log = [i \in Instances |-> <<>>]
  /\ handles = 0
  /\ calls = 0
  /\ pc = [t \in Threads |-> "idle"]
  /\ ret = [t \in Threads |-> <<>>]
  /\ op = [t \in Threads |-> "none"]
  /\ self = [t \in Threads |-> NULL]
  /\ arg = [t \in Threads |-> NoArg]
  /\ rv = [t \in Threads |-> NULL]
  /\ trycatch = [t \in Threads |-> 0]
  /\ error = [t \in Threads |-> NoError]
  /\ result = [t \in Threads |-> NoResult]

\* ----------------------------------------------------------- helpers
Event(e, a, t) == [e |-> e, a |-> a, t |-> t]

Bool(b) == IF b THEN 1 ELSE 0

Goto(t, p) ==
  /\ pc' = [pc EXCEPT ![t] = p]
  /\ UNCHANGED ret

\* A call of a function of the file: run it from `target`, come back at `back`.
CallFn(t, target, back) ==
  /\ pc' = [pc EXCEPT ![t] = target]
  /\ ret' = [ret EXCEPT ![t] = <<back>> \o ret[t]]

\* A return to the calling function.
ReturnFn(t) ==
  /\ pc' = [pc EXCEPT ![t] = Head(ret[t])]
  /\ ret' = [ret EXCEPT ![t] = Tail(ret[t])]

\* A return to the host: the call is over and its outcome is recorded.
ReturnHost(t, value) ==
  /\ pc' = [pc EXCEPT ![t] = "idle"]
  /\ ret' = [ret EXCEPT ![t] = <<>>]
  /\ result' = [result EXCEPT ![t] =
       [op |-> op[t], inst |-> self[t], arg |-> arg[t], rv |-> value,
        error |-> error[t]]]
  /\ op' = [op EXCEPT ![t] = "none"]
  /\ self' = [self EXCEPT ![t] = NULL]
  /\ arg' = [arg EXCEPT ![t] = NoArg]
  /\ rv' = [rv EXCEPT ![t] = NULL]
  /\ trycatch' = [trycatch EXCEPT ![t] = 0]
  /\ error' = [error EXCEPT ![t] = NoError]

\* The start of a host API call by an idle thread.
EnterHost(t, name, i, a) ==
  /\ op' = [op EXCEPT ![t] = name]
  /\ self' = [self EXCEPT ![t] = i]
  /\ arg' = [arg EXCEPT ![t] = a]
  /\ result' = [result EXCEPT ![t] = NoResult]
  /\ calls' = calls + 1
  /\ UNCHANGED <<rv, trycatch, error>>

\* A failed g_assert aborts the process: no thread takes another step.
Aborted == \E u \in Threads : pc[u] = "abort"

At(t, p) == pc[t] = p /\ ~Aborted

CanCall(t) ==
  /\ At(t, "idle")
  /\ calls < MaxCalls
  /\ isolate_state # "disposed"

\* A return from a function that the host or another function may call.
Return(t, value) ==
  IF ret[t] = <<>>
  THEN ReturnHost(t, value)
  ELSE /\ ReturnFn(t)
       /\ rv' = [rv EXCEPT ![t] = value]
       /\ UNCHANGED <<op, self, arg, trycatch, error, result>>

\* The host sees the call return: the last event of the call.
\* It carries the loaded flag the call leaves behind.
HostReturn(t, e) == Event(e, Bool(priv[self[t]].loaded), t)

ReturnEvent(t, e) == IF ret[t] = <<>> THEN <<HostReturn(t, e)>> ELSE <<>>

Append1(i, ev) == log' = [log EXCEPT ![i] = Append(log[i], ev)]

AppendAll(i, evs) == log' = [log EXCEPT ![i] = log[i] \o evs]

\* A Locker that does not wait for the thread holding the isolate.
LockerAcquire_no_wait(t) == locker' = t

\* Locker locker (isolate): blocks until no other thread holds the isolate.
LockerAcquire(t) ==
  /\ locker = NoThread
  /\ locker' = t

\* ~Locker
LockerRelease(t) == locker' = NoThread

\* ------------------------------------------------- the engine runtime
\* A gum_script_runtime_get_isolate whose callers do not wait for an
\* initializer in progress: each of them runs the initializer itself.
gum_script_runtime_get_isolate_no_once(t) ==
  /\ At(t, "get_isolate")
  /\ IF init_once # "READY"
     THEN /\ init_once' = "PROGRESS"
          /\ Goto(t, "do_init")
          /\ UNCHANGED rv
     ELSE /\ rv' = [rv EXCEPT ![t] = once_retval]
          /\ ReturnFn(t)
          /\ UNCHANGED init_once
  /\ UNCHANGED <<once_retval, isolates, isolate_state, gum_scheduler,
                 gum_platform, destructors, tasks, debugVars, locker, instVars,
                 calls, op, self, arg, trycatch, error, result>>

\* gum_script_runtime_get_isolate: g_once (&init_once, ...) lets the first
\* caller run the initializer, blocks the others while it runs, and then
\* returns init_once.retval to every caller.
gum_script_runtime_get_isolate(t) ==
  /\ At(t, "get_isolate")
  /\ init_once # "PROGRESS"
  /\ IF init_once = "NOTCALLED"
     THEN /\ init_once' = "PROGRESS"
          /\ Goto(t, "do_init")
          /\ UNCHANGED rv
     ELSE /\ rv' = [rv EXCEPT ![t] = once_retval]
          /\ ReturnFn(t)
          /\ UNCHANGED init_once
  /\ UNCHANGED <<once_retval, isolates, isolate_state, gum_scheduler,
                 gum_platform, destructors, tasks, debugVars, locker, instVars,
                 calls, op, self, arg, trycatch, error, result>>

\* gum_script_runtime_do_init, and g_once storing its return value.
gum_script_runtime_do_init(t) ==
  /\ At(t, "do_init")
  /\ gum_scheduler' = 1
  /\ gum_platform' = [main_context |-> t]
  /\ isolates' = isolates + 1
  /\ isolate_state' = "entered"
  /\ destructors' = destructors + 1
  /\ once_retval' = isolates + 1
  /\ init_once' = "READY"
  /\ rv' = [rv EXCEPT ![t] = isolates + 1]
  /\ ReturnFn(t)
  /\ UNCHANGED <<tasks, debugVars, locker, instVars, calls, op, self, arg,
                 trycatch, error, result>>

\* ------------------------------------------- creating a script instance
FreeInstance(i) ==
  /\ obj[i] = "none"
  /\ \A j \in Instances : obj[j] = "none" => i <= j

\* gum_script_from_string: g_object_new allocates the zero-filled instance
\* and runs gum_script_init, which starts by acquiring the isolate.
gum_script_from_string(t, S, E) ==
  /\ CanCall(t)
  /\ \E i \in Instances, s \in S, e \in E :
       /\ FreeInstance(i)
       /\ EnterHost(t, "from_string", i,
                    [NoArg EXCEPT !.source = s, !.errp = e])
       /\ obj' = [obj EXCEPT ![i] = "alive"]
       /\ priv' = [priv EXCEPT ![i] = ZeroPriv]
       /\ owner' = [owner EXCEPT ![i] = t]
       /\ Append1(i, Event("call:from_string", 0, t))
  /\ CallFn(t, "get_isolate", "gum_script_init")
  /\ UNCHANGED <<runtimeVars, debugVars, locker, handles>>

gum_script_init(t) ==
  /\ At(t, "gum_script_init")
  /\ priv' = [priv EXCEPT ![self[t]].isolate = rv[t],
                          ![self[t]].loaded = FALSE]
  /\ Goto(t, "set_property")
  /\ UNCHANGED <<runtimeVars, debugVars, locker, obj, owner, log, handles,
                 calls, localVars>>

\* gum_script_set_property (PROP_SOURCE), the construct property, after
\* which gum_script_from_string calls gum_script_create_context.
gum_script_set_property(t) ==
  /\ At(t, "set_property")
  /\ priv' = [priv EXCEPT ![self[t]].source = arg[t].source]
  /\ CallFn(t, "cc_assert", "from_string_check")
  /\ UNCHANGED <<runtimeVars, debugVars, locker, obj, owner, log, handles,
                 calls, localVars>>

\* if (!gum_script_create_context (script, error)) g_object_unref (script)
gum_script_from_string_check(t) ==
  /\ At(t, "from_string_check")
  /\ IF rv[t] = 1
     THEN /\ ReturnHost(t, self[t])
          /\ Append1(self[t], HostReturn(t, "ret:from_string"))
     ELSE /\ CallFn(t, "dispose", "from_string_null")
          /\ UNCHANGED <<log, localVars>>
  /\ UNCHANGED <<runtimeVars, debugVars, locker, obj, priv, owner, handles,
                 calls>>

\* script = NULL; return script
gum_script_from_string_null(t) ==
  /\ At(t, "from_string_null")
  /\ ReturnHost(t, NULL)
  /\ Append1(self[t], HostReturn(t, "ret:from_string"))
  /\ UNCHANGED <<runtimeVars, debugVars, locker, obj, priv, owner, handles,
                 calls>>

\* ------------------------------------------------- building the context
\* The calls of one lifecycle hook on the 11 bindings, first to last.
HookCalls(e, t) == [k \in 1..NumBindings |-> Event(e, k, t)]

\* The calls of a teardown hook made first to last, like those of a build.
HookCallsReversed_forward(e, t) == HookCalls(e, t)

\* The same calls in the reverse order, instruction first and core last.
HookCallsReversed(e, t) ==
  [k \in 1..NumBindings |-> Event(e, NumBindings + 1 - k, t)]

RECURSIVE SetBindings(_, _, _)
\* The bindings after one hook ran on the first n of them.
SetBindings(bs, n, state) ==
  IF n = 0 THEN bs
  ELSE [SetBindings(bs, n - 1, state) EXCEPT ![BindingOrder[n]] = state]

\* g_assert (priv->context == NULL)
gum_script_create_context_assert(t) ==
  /\ At(t, "cc_assert")
  /\ IF priv[self[t]].context = NULL
     THEN Goto(t, "cc_lock")
     ELSE Goto(t, "abort")
  /\ UNCHANGED <<runtimeVars, debugVars, locker, instVars, calls, localVars>>

\* Locker locker (priv->isolate) and the scopes entered with it
gum_script_create_context_lock(t) ==
  /\ At(t, "cc_lock")
  /\ LockerAcquire(t)
  /\ Goto(t, "cc_init")
  /\ UNCHANGED <<runtimeVars, debugVars, instVars, calls, localVars>>

\* _gum_script_core_init ... _gum_script_instruction_init
gum_script_create_context_init(t) ==
  /\ At(t, "cc_init")
  /\ priv' = [priv EXCEPT ![self[t]].bindings =
                SetBindings(@, NumBindings, "init")]
  /\ AppendAll(self[t], HookCalls("init", t))
  /\ Goto(t, "cc_context")
  /\ UNCHANGED <<runtimeVars, debugVars, locker, obj, owner, handles, calls,
                 localVars>>

\* priv->context = new GumPersistent<Context>::type (...)
gum_script_create_context_context(t) ==
  /\ At(t, "cc_context")
  /\ handles' = handles + 1
  /\ priv' = [priv EXCEPT ![self[t]].context = handles + 1]
  /\ Append1(self[t], Event("context_new", handles + 1, t))
  /\ Goto(t, "cc_realize")
  /\ UNCHANGED <<runtimeVars, debugVars, locker, obj, owner, calls,
                 localVars>>

\* _gum_script_core_realize ... _gum_script_instruction_realize
gum_script_create_context_realize(t) ==
  /\ At(t, "cc_realize")
  /\ priv' = [priv EXCEPT ![self[t]].bindings =
                SetBindings(@, NumBindings, "realized")]
  /\ AppendAll(self[t], HookCalls("realize", t))
  /\ Goto(t, "cc_compile")
  /\ UNCHANGED <<runtimeVars, debugVars, locker, obj, owner, handles, calls,
                 localVars>>

\* The line of a compile error as g_set_error formats it.
CompileErrorLine(engine_line) ==
  engine_line - GUM_SCRIPT_RUNTIME_SOURCE_LINE_COUNT

\* Script::Compile of the bootstrap and the source; g_set_error on failure
\* (a no-op when the caller passed no error location), else
\* priv->raw_script = new GumPersistent<Script>::type (...)
gum_script_create_context_compile(t) ==
  /\ At(t, "cc_compile")
  /\ LET line == Compile(CombinedSource(priv[self[t]].source)) IN
       IF line # 0
       THEN /\ error' = [error EXCEPT ![t] =
                 IF arg[t].errp
                 THEN [set |-> TRUE, line |-> CompileErrorLine(line)]
                 ELSE @]
            /\ Append1(self[t], Event("compile", line, t))
            /\ UNCHANGED <<priv, handles>>
       ELSE /\ handles' = handles + 1
            /\ priv' = [priv EXCEPT ![self[t]].raw_script = handles + 1]
            /\ AppendAll(self[t], <<Event("compile", 0, t),
                                    Event("script_new", handles + 1, t)>>)
            /\ UNCHANGED error
  /\ Goto(t, "cc_unlock")
  /\ UNCHANGED <<runtimeVars, debugVars, locker, obj, owner, calls, op,
                 self, arg, rv, trycatch, result>>

\* the end of the block: ~Locker
gum_script_create_context_unlock(t) ==
  /\ At(t, "cc_unlock")
  /\ LockerRelease(t)
  /\ Goto(t, "cc_check")
  /\ UNCHANGED <<runtimeVars, debugVars, instVars, calls, localVars>>

\* A compile failure reported without the teardown.
gum_script_create_context_check_no_teardown(t) ==
  /\ At(t, "cc_check")
  /\ IF priv[self[t]].raw_script = NULL
     THEN /\ Goto(t, "cc_fail")
          /\ UNCHANGED rv
     ELSE /\ ReturnFn(t)
          /\ rv' = [rv EXCEPT ![t] = 1]
  /\ UNCHANGED <<runtimeVars, debugVars, locker, instVars, calls, op, self,
                 arg, trycatch, error, result>>

\* if (priv->raw_script == NULL) { gum_script_destroy_context (self);
\* return FALSE; } return TRUE;
gum_script_create_context_check(t) ==
  /\ At(t, "cc_check")
  /\ IF priv[self[t]].raw_script = NULL
     THEN /\ CallFn(t, "dc_assert", "cc_fail")
          /\ UNCHANGED rv
     ELSE /\ ReturnFn(t)
          /\ rv' = [rv EXCEPT ![t] = 1]
  /\ UNCHANGED <<runtimeVars, debugVars, locker, instVars, calls, op, self,
                 arg, trycatch, error, result>>

\* return FALSE
gum_script_create_context_fail(t) ==
  /\ At(t, "cc_fail")
  /\ ReturnFn(t)
  /\ rv' = [rv EXCEPT ![t] = 0]
  /\ UNCHANGED <<runtimeVars, debugVars, locker, instVars, calls, op, self,
                 arg, trycatch, error, result>>

\* ------------------------------------------------------------ teardown
\* g_assert (priv->context != NULL)
gum_script_destroy_context_assert(t) ==
  /\ At(t, "dc_assert")
  /\ IF priv[self[t]].context # NULL
     THEN Goto(t, "dc_lock")
     ELSE Goto(t, "abort")
  /\ UNCHANGED <<runtimeVars, debugVars, locker, instVars, calls, localVars>>

\* Locker locker (priv->isolate), held to the end of the function
gum_script_destroy_context_lock(t) ==
  /\ At(t, "dc_lock")
  /\ LockerAcquire(t)
  /\ Goto(t, "dc_dispose")
  /\ UNCHANGED <<runtimeVars, debugVars, instVars, calls, localVars>>

\* Inside the context: _gum_script_core_flush, then
\* _gum_script_instruction_dispose ... _gum_script_core_dispose.
\* With no context (another thread's teardown deleted it after the
\* assertion) *priv->context dereferences a null pointer: the process
\* crashes there or goes on.
gum_script_destroy_context_dispose(t) ==
  /\ At(t, "dc_dispose")
  /\ \/ /\ priv' = [priv EXCEPT ![self[t]].bindings =
                     SetBindings(@, NumBindings, "disposed")]
        /\ AppendAll(self[t], <<Event("flush", 1, t)>>
                              \o HookCallsReversed("dispose", t))
        /\ Goto(t, "dc_delete_script")
     \/ /\ priv[self[t]].context = NULL
        /\ Goto(t, "abort")
        /\ UNCHANGED <<priv, log>>
  /\ UNCHANGED <<runtimeVars, debugVars, locker, obj, owner, handles, calls,
                 localVars>>

\* delete priv->raw_script; priv->raw_script = NULL
gum_script_destroy_context_delete_script(t) ==
  /\ At(t, "dc_delete_script")
  /\ priv' = [priv EXCEPT ![self[t]].raw_script = NULL]
  /\ Append1(self[t], Event("delete_script", priv[self[t]].raw_script, t))
  /\ Goto(t, "dc_delete_context")
  /\ UNCHANGED <<runtimeVars, debugVars, locker, obj, owner, handles, calls,
                 localVars>>

\* A teardown that deletes the context and leaves the pointer to it behind.
gum_script_destroy_context_delete_context_no_clear(t) ==
  /\ At(t, "dc_delete_context")
  /\ Append1(self[t], Event("delete_context", priv[self[t]].context, t))
  /\ Goto(t, "dc_finalize")
  /\ UNCHANGED <<runtimeVars, debugVars, locker, obj, priv, owner, handles,
                 calls, localVars>>

\* delete priv->context; priv->context = NULL
gum_script_destroy_context_delete_context(t) ==
  /\ At(t, "dc_delete_context")
  /\ priv' = [priv EXCEPT ![self[t]].context = NULL]
  /\ Append1(self[t], Event("delete_context", priv[self[t]].context, t))
  /\ Goto(t, "dc_finalize")
  /\ UNCHANGED <<runtimeVars, debugVars, locker, obj, owner, handles, calls,
                 localVars>>

\* _gum_script_instruction_finalize ... _gum_script_core_finalize
gum_script_destroy_context_finalize(t) ==
  /\ At(t, "dc_finalize")
  /\ priv' = [priv EXCEPT ![self[t]].bindings =
                SetBindings(@, NumBindings, "finalized")]
  /\ AppendAll(self[t], HookCallsReversed("finalize", t))
  /\ Goto(t, "dc_loaded")
  /\ UNCHANGED <<runtimeVars, debugVars, locker, obj, owner, handles, calls,
                 localVars>>

\* priv->loaded = FALSE
gum_script_destroy_context_loaded(t) ==
  /\ At(t, "dc_loaded")
  /\ priv' = [priv EXCEPT ![self[t]].loaded = FALSE]
  /\ Goto(t, "dc_unlock")
  /\ UNCHANGED <<runtimeVars, debugVars, locker, obj, owner, log, handles,
                 calls, localVars>>

\* the end of the function: ~Locker
gum_script_destroy_context_unlock(t) ==
  /\ At(t, "dc_unlock")
  /\ LockerRelease(t)
  /\ ReturnFn(t)
  /\ UNCHANGED <<runtimeVars, debugVars, instVars, calls, localVars>>

\* ------------------------------------------------------ load and unload
\* A handle the host can pass to a call: the instance exists and the call
\* that creates it or the call that releases it is not in progress.
Usable(i) ==
  /\ obj[i] = "alive"
  /\ \A u \in Threads : self[u] = i => op[u] \notin {"from_string", "unref"}

AllHandles == {i \in Instances : Usable(i)}

OwnHandles(t) == {i \in AllHandles : owner[i] = t}

\* A load that builds the context whether or not the instance has one.
gum_script_load_always_builds(t, I) ==
  /\ CanCall(t)
  /\ \E i \in I :
       /\ EnterHost(t, "load", i, NoArg)
       /\ Append1(i, Event("call:load", Bool(priv[i].loaded), t))
       /\ CallFn(t, "cc_assert", "ld_check")
  /\ UNCHANGED <<runtimeVars, debugVars, locker, obj, priv, owner, handles>>

\* gum_script_load: if (priv->raw_script == NULL)
\*   gum_script_create_context (self, NULL)
gum_script_load(t, I) ==
  /\ CanCall(t)
  /\ \E i \in I :
       /\ EnterHost(t, "load", i, NoArg)
       /\ Append1(i, Event("call:load", Bool(priv[i].loaded), t))
       /\ IF priv[i].raw_script = NULL
          THEN CallFn(t, "cc_assert", "ld_check")
          ELSE Goto(t, "ld_check")
  /\ UNCHANGED <<runtimeVars, debugVars, locker, obj, priv, owner, handles>>

\* The check of load without the test of the loaded flag.
gum_script_load_check_no_flag(t) ==
  /\ At(t, "ld_check")
  /\ IF priv[self[t]].raw_script # NULL
     THEN /\ Goto(t, "ld_set")
          /\ UNCHANGED <<log, localVars>>
     ELSE /\ ReturnHost(t, NULL)
          /\ Append1(self[t], HostReturn(t, "ret:load"))
  /\ UNCHANGED <<runtimeVars, debugVars, locker, obj, priv, owner, handles,
                 calls>>

\* if (priv->raw_script != NULL && !priv->loaded)
gum_script_load_check(t) ==
  /\ At(t, "ld_check")
  /\ IF priv[self[t]].raw_script # NULL /\ ~priv[self[t]].loaded
     THEN /\ Goto(t, "ld_set")
          /\ UNCHANGED <<log, localVars>>
     ELSE /\ ReturnHost(t, NULL)
          /\ Append1(self[t], HostReturn(t, "ret:load"))
  /\ UNCHANGED <<runtimeVars, debugVars, locker, obj, priv, owner, handles,
                 calls>>

\* priv->loaded = TRUE
gum_script_load_set(t) ==
  /\ At(t, "ld_set")
  /\ priv' = [priv EXCEPT ![self[t]].loaded = TRUE]
  /\ Goto(t, "scope_enter")
  /\ UNCHANGED <<runtimeVars, debugVars, locker, obj, owner, log, handles,
                 calls, localVars>>

\* ScriptScope scope (self): ScriptScopeImpl takes the Locker, enters the
\* isolate and *priv->context, and opens its TryCatch.  With no context
\* *priv->context dereferences a null pointer: the process crashes there
\* or goes on with whatever the read produced.
ScriptScopeImpl_ctor(t) ==
  /\ At(t, "scope_enter")
  /\ LockerAcquire(t)
  /\ Append1(self[t], Event("scope_enter", priv[self[t]].context, t))
  /\ IF priv[self[t]].context = NULL
     THEN \/ /\ Goto(t, "abort")
             /\ UNCHANGED trycatch
          \/ /\ Goto(t, "ld_run")
             /\ trycatch' = [trycatch EXCEPT ![t] = 0]
     ELSE /\ Goto(t, "ld_run")
          /\ trycatch' = [trycatch EXCEPT ![t] = 0]
  /\ UNCHANGED <<runtimeVars, debugVars, obj, priv, owner, handles, calls,
                 op, self, arg, rv, error, result>>

\* Local<Script>::New (priv->isolate, *priv->raw_script);
\* raw_script->Run (): what it throws is caught by the scope's TryCatch.
\* With no compiled program *priv->raw_script dereferences a null pointer:
\* the process crashes there or goes on to run what the read produced.
gum_script_load_run(t) ==
  /\ At(t, "ld_run")
  /\ \/ /\ LET caught == Run(CombinedSource(priv[self[t]].source)) IN
            /\ trycatch' = [trycatch EXCEPT ![t] = caught]
            /\ Append1(self[t], Event("run", caught, t))
        /\ Goto(t, "scope_dtor")
     \/ /\ priv[self[t]].raw_script = NULL
        /\ Goto(t, "abort")
        /\ UNCHANGED <<trycatch, log>>
  /\ UNCHANGED <<runtimeVars, debugVars, locker, obj, priv, owner, handles,
                 calls, op, self, arg, rv, error, result>>

\* The engine's line number passed on without the bootstrap discounted.
ErrorMessageLine_raw(engine_line) == engine_line

\* The lineNumber of the error message of an uncaught exception.
ErrorMessageLine(engine_line) ==
  engine_line - GUM_SCRIPT_RUNTIME_SOURCE_LINE_COUNT

\* ~ScriptScopeImpl: if (trycatch.HasCaught ())
\*   _gum_script_core_emit_message (&priv->core, error, NULL, 0)
ScriptScopeImpl_dtor(t) ==
  /\ At(t, "scope_dtor")
  /\ IF trycatch[t] # 0
     THEN Append1(self[t], Event("emit", ErrorMessageLine(trycatch[t]), t))
     ELSE UNCHANGED log
  /\ Goto(t, "scope_unlock")
  /\ UNCHANGED <<runtimeVars, debugVars, locker, obj, priv, owner, handles,
                 calls, localVars>>

\* A scope whose exit keeps the Locker.
ScriptScopeImpl_unlock_keeps_locker(t) ==
  /\ At(t, "scope_unlock")
  /\ Append1(self[t], Event("scope_exit", 0, t))
  /\ Goto(t, "scope_pending")
  /\ UNCHANGED <<runtimeVars, debugVars, locker, obj, priv, owner, handles,
                 calls, localVars>>

\* The members of ScriptScopeImpl are destroyed: the scopes are left and
\* the Locker is released.
ScriptScopeImpl_unlock(t) ==
  /\ At(t, "scope_unlock")
  /\ LockerRelease(t)
  /\ Append1(self[t], Event("scope_exit", 0, t))
  /\ Goto(t, "scope_pending")
  /\ UNCHANGED <<runtimeVars, debugVars, obj, priv, owner, handles, calls,
                 localVars>>

\* The scope's exit without the tracer's hook.
ScriptScope_dtor_no_pending(t) ==
  /\ At(t, "scope_pending")
  /\ Append1(self[t], HostReturn(t, "ret:load"))
  /\ ReturnHost(t, NULL)
  /\ UNCHANGED <<runtimeVars, debugVars, locker, obj, priv, owner, handles,
                 calls>>

\* ~ScriptScope, after delete impl:
\* _gum_script_stalker_process_pending (&parent->priv->stalker);
\* gum_script_load returns.
ScriptScope_dtor(t) ==
  /\ At(t, "scope_pending")
  /\ AppendAll(self[t], <<Event("process_pending", 0, t),
                          HostReturn(t, "ret:load")>>)
  /\ ReturnHost(t, NULL)
  /\ UNCHANGED <<runtimeVars, debugVars, locker, obj, priv, owner, handles,
                 calls>>

\* gum_script_unload called by the host
gum_script_unload(t, I) ==
  /\ CanCall(t)
  /\ \E i \in I :
       /\ EnterHost(t, "unload", i, NoArg)
       /\ Append1(i, Event("call:unload", Bool(priv[i].loaded), t))
  /\ Goto(t, "ul_check")
  /\ UNCHANGED <<runtimeVars, debugVars, locker, obj, priv, owner, handles>>

\* if (priv->loaded), else return
gum_script_unload_check(t) ==
  /\ At(t, "ul_check")
  /\ IF priv[self[t]].loaded
     THEN /\ Goto(t, "ul_clear")
          /\ UNCHANGED <<log, localVars>>
     ELSE /\ Return(t, NULL)
          /\ AppendAll(self[t], ReturnEvent(t, "ret:unload"))
  /\ UNCHANGED <<runtimeVars, debugVars, locker, obj, priv, owner, handles,
                 calls>>

\* An unload that clears the flag and keeps the context.
gum_script_unload_clear_only(t) ==
  /\ At(t, "ul_clear")
  /\ priv' = [priv EXCEPT ![self[t]].loaded = FALSE]
  /\ Goto(t, "ul_return")
  /\ UNCHANGED <<runtimeVars, debugVars, locker, obj, owner, log, handles,
                 calls, localVars>>

\* An unload that tears the context down with the flag still set.
gum_script_unload_clear_keeps_flag(t) ==
  /\ At(t, "ul_clear")
  /\ CallFn(t, "dc_assert", "ul_return")
  /\ UNCHANGED <<runtimeVars, debugVars, locker, instVars, calls, localVars>>

\* priv->loaded = FALSE; gum_script_destroy_context (self)
gum_script_unload_clear(t) ==
  /\ At(t, "ul_clear")
  /\ priv' = [priv EXCEPT ![self[t]].loaded = FALSE]
  /\ CallFn(t, "dc_assert", "ul_return")
  /\ UNCHANGED <<runtimeVars, debugVars, locker, obj, owner, log, handles,
                 calls, localVars>>

\* gum_script_unload returns after the teardown
gum_script_unload_return(t) ==
  /\ At(t, "ul_return")
  /\ Return(t, NULL)
  /\ AppendAll(self[t], ReturnEvent(t, "ret:unload"))
  /\ UNCHANGED <<runtimeVars, debugVars, locker, obj, priv, owner, handles,
                 calls>>

\* ------------------------------------------------- releasing the handle
\* g_object_unref of the last reference, by the host: gum_script_dispose
\* starts with gum_script_unload (self).
g_object_unref(t, I) ==
  /\ CanCall(t)
  /\ \E i \in I :
       /\ \A u \in Threads : self[u] # i
       /\ EnterHost(t, "unref", i, NoArg)
       /\ Append1(i, Event("call:unref", Bool(priv[i].loaded), t))
  /\ Goto(t, "dispose")
  /\ UNCHANGED <<runtimeVars, debugVars, locker, obj, priv, owner, handles>>

\* A dispose that does not unload.
gum_script_dispose_no_unload(t) ==
  /\ At(t, "dispose")
  /\ Goto(t, "dispose_isolate")
  /\ UNCHANGED <<runtimeVars, debugVars, locker, instVars, calls, localVars>>

\* gum_script_dispose: gum_script_unload (self)
gum_script_dispose(t) ==
  /\ At(t, "dispose")
  /\ CallFn(t, "ul_check", "dispose_isolate")
  /\ UNCHANGED <<runtimeVars, debugVars, locker, instVars, calls, localVars>>

\* priv->isolate = NULL, and the parent class's dispose
gum_script_dispose_isolate(t) ==
  /\ At(t, "dispose_isolate")
  /\ priv' = [priv EXCEPT ![self[t]].isolate = NULL]
  /\ Goto(t, "finalize")
  /\ UNCHANGED <<runtimeVars, debugVars, locker, obj, owner, log, handles,
                 calls, localVars>>

\* gum_script_finalize: g_free (priv->source) and the parent's finalize.
\* The instance is gone; priv[i] keeps what its fields held when it went.
gum_script_finalize(t) ==
  /\ At(t, "finalize")
  /\ obj' = [obj EXCEPT ![self[t]] = "freed"]
  /\ UNCHANGED priv
  /\ Return(t, NULL)
  /\ AppendAll(self[t], ReturnEvent(t, "ret:unref"))
  /\ UNCHANGED <<runtimeVars, debugVars, locker, owner, handles, calls>>

\* ----------------------------------------------------- the debug bridge
\* The handlers a host may register.
Handlers == {1, 2}

DebugEvent(e, data, t) == [e |-> e, data |-> data, t |-> t]

\* gum_script_set_debug_message_handler (func, data, notify) called by the
\* host, each call that registers with a data pointer of its own:
\* Isolate * isolate = gum_script_runtime_get_isolate ()
gum_script_set_debug_message_handler(t) ==
  /\ CanCall(t)
  /\ \E func \in Handlers \cup {NULL}, notify \in {NULL, 1} :
       /\ func = NULL => notify = NULL
       /\ EnterHost(t, "set_debug", NULL,
            [NoArg EXCEPT !.func = func, !.notify = notify,
               !.data = IF func = NULL THEN NULL ELSE calls + 1])
  /\ CallFn(t, "get_isolate", "sd_lock")
  /\ UNCHANGED <<runtimeVars, debugVars, locker, instVars>>

\* Locker locker (isolate) and the scopes entered with it
gum_script_set_debug_message_handler_lock(t) ==
  /\ At(t, "sd_lock")
  /\ LockerAcquire(t)
  /\ Goto(t, "sd_uninstall")
  /\ UNCHANGED <<runtimeVars, debugVars, instVars, calls, localVars>>

\* An uninstall that forgets the release callback of the old handler.
gum_script_set_debug_message_handler_uninstall_no_notify(t) ==
  /\ At(t, "sd_uninstall")
  /\ IF gum_debug_handler # NULL
     THEN /\ gum_debug_context' = NULL
          /\ v8_message_handler' = "nullptr"
          /\ dlog' = Append(dlog, DebugEvent("unregister", gum_debug_data, t))
          /\ gum_debug_handler' = NULL
          /\ gum_debug_data' = NULL
          /\ gum_debug_notify' = NULL
     ELSE UNCHANGED debugVars
  /\ Goto(t, "sd_install")
  /\ UNCHANGED <<runtimeVars, locker, instVars, calls, localVars>>

\* if (gum_debug_handler != NULL): delete gum_debug_context,
\* Debug::SetMessageHandler (nullptr), gum_debug_notify (gum_debug_data)
\* when there is a notify, and the three globals cleared
gum_script_set_debug_message_handler_uninstall(t) ==
  /\ At(t, "sd_uninstall")
  /\ IF gum_debug_handler # NULL
     THEN /\ gum_debug_context' = NULL
          /\ v8_message_handler' = "nullptr"
          /\ dlog' = dlog
               \o <<DebugEvent("unregister", gum_debug_data, t)>>
               \o (IF gum_debug_notify # NULL
                   THEN <<DebugEvent("notify", gum_debug_data, t)>>
                   ELSE <<>>)
          /\ gum_debug_handler' = NULL
          /\ gum_debug_data' = NULL
          /\ gum_debug_notify' = NULL
     ELSE UNCHANGED debugVars
  /\ Goto(t, "sd_install")
  /\ UNCHANGED <<runtimeVars, locker, instVars, calls, localVars>>

\* if (func != NULL): the three globals set, Debug::SetMessageHandler
\* (gum_script_on_debug_message), gum_debug_context = new ...
gum_script_set_debug_message_handler_install(t) ==
  /\ At(t, "sd_install")
  /\ IF arg[t].func # NULL
     THEN /\ gum_debug_handler' = arg[t].func
          /\ gum_debug_data' = arg[t].data
          /\ gum_debug_notify' = arg[t].notify
          /\ v8_message_handler' = "gum_script_on_debug_message"
          /\ handles' = handles + 1
          /\ gum_debug_context' = handles + 1
          /\ dlog' = Append(dlog,
               DebugEvent(IF arg[t].notify # NULL THEN "register"
                          ELSE "register_no_notify", arg[t].data, t))
     ELSE UNCHANGED <<debugVars, handles>>
  /\ Goto(t, "sd_unlock")
  /\ UNCHANGED <<runtimeVars, locker, obj, priv, owner, log, calls,
                 localVars>>

\* the end of the function: ~Locker
gum_script_set_debug_message_handler_unlock(t) ==
  /\ At(t, "sd_unlock")
  /\ LockerRelease(t)
  /\ Return(t, NULL)
  /\ UNCHANGED <<runtimeVars, debugVars, instVars, calls>>

\* gum_script_post_debug_message (message) called by the host
gum_script_post_debug_message(t) ==
  /\ CanCall(t)
  /\ EnterHost(t, "post_debug", NULL, NoArg)
  /\ Goto(t, "pd_assert")
  /\ UNCHANGED <<runtimeVars, debugVars, locker, instVars>>

\* A gum_script_post_debug_message without its assertion.
gum_script_post_debug_message_assert_no_assert(t) ==
  /\ At(t, "pd_assert")
  /\ dlog' = Append(dlog, DebugEvent("post_debug", gum_debug_handler, t))
  /\ CallFn(t, "get_isolate", "pd_lock")
  /\ UNCHANGED <<runtimeVars, gum_debug_handler, gum_debug_data,
                 gum_debug_notify, gum_debug_context, v8_message_handler,
                 locker, instVars, calls, localVars>>

\* g_assert (gum_debug_handler != NULL);
\* Isolate * isolate = gum_script_runtime_get_isolate ()
\* The debug log notes the call with the handler the assertion read.
gum_script_post_debug_message_assert(t) ==
  /\ At(t, "pd_assert")
  /\ dlog' = Append(dlog, DebugEvent("post_debug", gum_debug_handler, t))
  /\ IF gum_debug_handler # NULL
     THEN CallFn(t, "get_isolate", "pd_lock")
     ELSE Goto(t, "abort")
  /\ UNCHANGED <<runtimeVars, gum_debug_handler, gum_debug_data,
                 gum_debug_notify, gum_debug_context, v8_message_handler,
                 locker, instVars, calls, localVars>>

\* Locker locker (isolate) and the scopes entered with it
gum_script_post_debug_message_lock(t) ==
  /\ At(t, "pd_lock")
  /\ LockerAcquire(t)
  /\ Goto(t, "pd_context")
  /\ UNCHANGED <<runtimeVars, debugVars, instVars, calls, localVars>>

\* Local<Context>::New (isolate, *gum_debug_context); Context::Scope.
\* With no debug context (another thread unregistered the handler after
\* the assertion) this dereferences a null pointer: the process crashes
\* there or goes on.
gum_script_post_debug_message_context(t) ==
  /\ At(t, "pd_context")
  /\ dlog' = Append(dlog, DebugEvent("context", gum_debug_context, t))
  /\ \/ Goto(t, "pd_send")
     \/ /\ gum_debug_context = NULL
        /\ Goto(t, "abort")
  /\ UNCHANGED <<runtimeVars, gum_debug_handler, gum_debug_data,
                 gum_debug_notify, gum_debug_context, v8_message_handler,
                 locker, instVars, calls, localVars>>

\* Debug::SendCommand and Debug::ProcessDebugMessages: the engine answers
\* the command through the installed hook, gum_script_on_debug_message,
\* which calls gum_debug_handler (*json_str, gum_debug_data).
gum_script_post_debug_message_send(t) ==
  /\ At(t, "pd_send")
  /\ dlog' = dlog
       \o <<DebugEvent("command", NULL, t), DebugEvent("pump", NULL, t)>>
       \o (IF v8_message_handler # "nullptr"
           THEN <<DebugEvent("handler", gum_debug_data, t)>>
           ELSE <<>>)
  /\ Goto(t, "pd_unlock")
  /\ UNCHANGED <<runtimeVars, gum_debug_handler, gum_debug_data,
                 gum_debug_notify, gum_debug_context, v8_message_handler,
                 locker, instVars, calls, localVars>>

\* the end of the function: ~Locker
gum_script_post_debug_message_unlock(t) ==
  /\ At(t, "pd_unlock")
  /\ LockerRelease(t)
  /\ ReturnHost(t, NULL)
  /\ dlog' = Append(dlog, DebugEvent("ret:post_debug", NULL, t))
  /\ UNCHANGED <<runtimeVars, gum_debug_handler, gum_debug_data,
                 gum_debug_notify, gum_debug_context, v8_message_handler,
                 instVars, calls>>

\* gum_script_runtime_do_deinit, the destructor gum_script_runtime_do_init
\* registered, run once as the process shuts the library down:
\* gum_script_set_debug_message_handler (NULL, NULL, NULL)
gum_script_runtime_do_deinit(t) ==
  /\ At(t, "idle")
  /\ \A u \in Threads : pc[u] = "idle"
  /\ destructors > 0
  /\ isolate_state = "entered"
  /\ op' = [op EXCEPT ![t] = "deinit"]
  /\ arg' = [arg EXCEPT ![t] = NoArg]
  /\ result' = [result EXCEPT ![t] = NoResult]
  /\ pc' = [pc EXCEPT ![t] = "get_isolate"]
  /\ ret' = [ret EXCEPT ![t] = <<"sd_lock", "deinit_isolate">>]
  /\ UNCHANGED <<runtimeVars, debugVars, locker, instVars, calls, self, rv,
                 trycatch, error>>

\* isolate->Exit (); isolate->Dispose (); V8::Dispose ();
\* V8::ShutdownPlatform (); delete gum_platform;
\* gum_script_scheduler_free (gum_scheduler)
gum_script_runtime_do_deinit_isolate(t) ==
  /\ At(t, "deinit_isolate")
  /\ isolate_state' = "disposed"
  /\ gum_platform' = NULL
  /\ gum_scheduler' = NULL
  /\ ReturnHost(t, NULL)
  /\ UNCHANGED <<init_once, once_retval, isolates, destructors, tasks,
                 debugVars,
                 locker, instVars, calls>>

\* ------------------------------------------- the platform's tasks
\* A Task the engine hands to gum_platform: how it was submitted, where it
\* waits, the thread whose event loop its source is attached to (if any),
\* and the calls made on it so far ("run" for task->Run (), "dispose" for
\* delete task).
NewTask(kind, state, context, priority) ==
  [kind |-> kind, state |-> state, context |-> context,
   priority |-> priority, events |-> <<>>]

\* PerformTask: task->Run ()
PerformTask(task) == [task EXCEPT !.events = Append(@, "run")]

\* An idle callback that asks the event loop to keep its source.
PerformTaskWhenIdle_continue(task) ==
  [task |-> PerformTask(task), continue |-> TRUE]

\* PerformTaskWhenIdle: PerformTask (task); return FALSE
PerformTaskWhenIdle(task) ==
  [task |-> PerformTask(task), continue |-> FALSE]

\* DisposeTask: delete task
DisposeTask(task) ==
  [task EXCEPT !.events = Append(@, "dispose"), !.state = "destroyed"]

\* The engine may hand over a task once V8::InitializePlatform installed
\* gum_platform, until V8::ShutdownPlatform.
CanSubmit ==
  /\ ~Aborted
  /\ isolate_state = "entered"
  /\ Len(tasks) < MaxTasks

\* CallOnBackgroundThread: gum_script_scheduler_push_job (scheduler,
\* PerformTask, task, DisposeTask, NULL)
GumScriptPlatform_CallOnBackgroundThread ==
  /\ CanSubmit
  /\ tasks' = Append(tasks, NewTask("background", "queued", NoThread, "none"))
  /\ UNCHANGED <<init_once, once_retval, isolates, isolate_state,
                 gum_scheduler, gum_platform, destructors, debugVars, locker,
                 instVars, calls, pc, ret, localVars>>

\* CallOnForegroundThread: an idle source of priority G_PRIORITY_HIGH with
\* callback PerformTaskWhenIdle, data task and notify DisposeTask,
\* attached to main_context.
GumScriptPlatform_CallOnForegroundThread ==
  /\ CanSubmit
  /\ tasks' = Append(tasks, NewTask("foreground", "attached",
                                    gum_platform.main_context,
                                    "G_PRIORITY_HIGH"))
  /\ UNCHANGED <<init_once, once_retval, isolates, isolate_state,
                 gum_scheduler, gum_platform, destructors, debugVars, locker,
                 instVars, calls, pc, ret, localVars>>

\* A thread of the scheduler's pool takes a queued job and calls its
\* function on the task.
gum_script_scheduler_run_job(k) ==
  /\ ~Aborted
  /\ k \in DOMAIN tasks
  /\ tasks[k].kind = "background"
  /\ tasks[k].state = "queued"
  /\ tasks' = [tasks EXCEPT ![k] = [PerformTask(@) EXCEPT !.state = "ran"]]
  /\ UNCHANGED <<init_once, once_retval, isolates, isolate_state,
                 gum_scheduler, gum_platform, destructors, debugVars, locker,
                 instVars, calls, pc, ret, localVars>>

\* The pool releases a job that ran through its destroy notify.
gum_script_scheduler_destroy_job(k) ==
  /\ ~Aborted
  /\ k \in DOMAIN tasks
  /\ tasks[k].kind = "background"
  /\ tasks[k].state = "ran"
  /\ tasks' = [tasks EXCEPT ![k] = DisposeTask(@)]
  /\ UNCHANGED <<init_once, once_retval, isolates, isolate_state,
                 gum_scheduler, gum_platform, destructors, debugVars, locker,
                 instVars, calls, pc, ret, localVars>>

\* An iteration of the event loop of main_context dispatches an attached
\* idle source: it calls the callback and keeps the source only when the
\* callback returned TRUE.
g_main_context_dispatch(k) ==
  /\ ~Aborted
  /\ k \in DOMAIN tasks
  /\ tasks[k].kind = "foreground"
  /\ tasks[k].state = "attached"
  /\ LET r == PerformTaskWhenIdle(tasks[k]) IN
       tasks' = [tasks EXCEPT ![k] =
                   IF r.continue THEN r.task
                   ELSE [r.task EXCEPT !.state = "removed"]]
  /\ UNCHANGED <<init_once, once_retval, isolates, isolate_state,
                 gum_scheduler, gum_platform, destructors, debugVars, locker,
                 instVars, calls, pc, ret, localVars>>

\* The event loop destroys a removed source: the destroy notify of its
\* callback is called on the task.
g_source_destroy(k) ==
  /\ ~Aborted
  /\ k \in DOMAIN tasks
  /\ tasks[k].kind = "foreground"
  /\ tasks[k].state = "removed"
  /\ tasks' = [tasks EXCEPT ![k] = DisposeTask(@)]
  /\ UNCHANGED <<init_once, once_retval, isolates, isolate_state,
                 gum_scheduler, gum_platform, destructors, debugVars, locker,
                 instVars, calls, pc, ret, localVars>>

\* ------------------------------------------------------ specifications
\* The steps a thread takes inside create, load and the release of a
\* handle.
CreateLoadStep(t) ==
  \/ gum_script_init(t)
  \/ gum_script_set_property(t)
  \/ gum_script_from_string_check(t)
  \/ gum_script_from_string_null(t)
  \/ gum_script_create_context_assert(t)
  \/ gum_script_create_context_lock(t)
  \/ gum_script_create_context_init(t)
  \/ gum_script_create_context_context(t)
  \/ gum_script_create_context_realize(t)
  \/ gum_script_create_context_compile(t)
  \/ gum_script_create_context_unlock(t)
  \/ gum_script_create_context_check(t)
  \/ gum_script_create_context_fail(t)
  \/ gum_script_destroy_context_assert(t)
  \/ gum_script_destroy_context_lock(t)
  \/ gum_script_destroy_context_dispose(t)
  \/ gum_script_destroy_context_delete_script(t)
  \/ gum_script_destroy_context_delete_context(t)
  \/ gum_script_destroy_context_finalize(t)
  \/ gum_script_destroy_context_loaded(t)
  \/ gum_script_destroy_context_unlock(t)
  \/ gum_script_load_check(t)
  \/ gum_script_load_set(t)
  \/ ScriptScopeImpl_ctor(t)
  \/ gum_script_load_run(t)
  \/ ScriptScopeImpl_dtor(t)
  \/ ScriptScopeImpl_unlock(t)
  \/ ScriptScope_dtor(t)
  \/ gum_script_unload_check(t)
  \/ gum_script_dispose(t)
  \/ gum_script_dispose_isolate(t)
  \/ gum_script_finalize(t)

\* The steps of gum_script_unload on a loaded instance.
UnloadStep(t) ==
  \/ gum_script_unload_clear(t)
  \/ gum_script_unload_return(t)

\* The steps a thread takes inside the lifecycle functions.
LifecycleStep(t) ==
  \/ CreateLoadStep(t)
  \/ UnloadStep(t)

\* The steps a thread takes to acquire the isolate.
RuntimeStep(t) ==
  \/ gum_script_runtime_get_isolate(t)
  \/ gum_script_runtime_do_init(t)

\* The steps a thread takes inside the debug bridge.
DebugStep(t) ==
  \/ gum_script_set_debug_message_handler_lock(t)
  \/ gum_script_set_debug_message_handler_uninstall(t)
  \/ gum_script_set_debug_message_handler_install(t)
  \/ gum_script_set_debug_message_handler_unlock(t)
  \/ gum_script_post_debug_message_assert(t)
  \/ gum_script_post_debug_message_lock(t)
  \/ gum_script_post_debug_message_context(t)
  \/ gum_script_post_debug_message_send(t)
  \/ gum_script_post_debug_message_unlock(t)

\* One host thread creating, loading, unloading and releasing scripts.
Next ==
  \/ gum_script_from_string(MainThread, Sources, BOOLEAN)
  \/ gum_script_load(MainThread, AllHandles)
  \/ gum_script_unload(MainThread, AllHandles)
  \/ g_object_unref(MainThread, AllHandles)
  \/ RuntimeStep(MainThread)
  \/ LifecycleStep(MainThread)

Spec == Init /\ [][Next]_vars

\* One host thread using the debug bridge until the runtime is torn down.
DebugNext ==
  \/ gum_script_set_debug_message_handler(MainThread)
  \/ gum_script_post_debug_message(MainThread)
  \/ gum_script_runtime_do_deinit(MainThread)
  \/ gum_script_runtime_do_deinit_isolate(MainThread)
  \/ RuntimeStep(MainThread)
  \/ DebugStep(MainThread)

DebugSpec == Init /\ [][DebugNext]_vars

\* Two host threads sharing every handle and the debug bridge.
ConcNext ==
  \E t \in Threads :
    \/ calls < MaxConcCalls /\ gum_script_from_string(t, ConcSources, {TRUE})
    \/ calls < MaxConcCalls /\ gum_script_load(t, AllHandles)
    \/ calls < MaxConcCalls /\ gum_script_unload(t, AllHandles)
    \/ calls < MaxConcCalls /\ g_object_unref(t, AllHandles)
    \/ calls < MaxConcCalls /\ gum_script_set_debug_message_handler(t)
    \/ calls < MaxConcCalls /\ gum_script_post_debug_message(t)
    \/ RuntimeStep(t)
    \/ LifecycleStep(t)
    \/ DebugStep(t)

ConcSpec == Init /\ [][ConcNext]_vars

\* The host API calls thread t has made on script instances.
CallsBy(t) ==
  LET made(i) ==
        {k \in DOMAIN log[i] :
           /\ log[i][k].t = t
           /\ log[i][k].e \in {"call:from_string", "call:load",
                              "call:unload", "call:unref"}}
      RECURSIVE sum(_)
      sum(I) == IF I = {} THEN 0
                ELSE LET i == CHOOSE j \in I : TRUE
                     IN Cardinality(made(i)) + sum(I \ {i})
  IN sum(Instances)

\* Two host threads, each creating scripts and loading the ones it created.
LoadNext ==
  \E t \in Threads :
    \/ /\ CallsBy(t) < MaxThreadCalls
       /\ gum_script_from_string(t, ConcSources, {TRUE})
    \/ /\ CallsBy(t) < MaxThreadCalls
       /\ gum_script_load(t, OwnHandles(t))
    \/ RuntimeStep(t)
    \/ CreateLoadStep(t)

LoadSpec == Init /\ [][LoadNext]_vars

\* A host thread inside a call keeps running: the scheduler of the host
\* does not starve a runnable thread.
FairLoadSpec ==
  LoadSpec /\ \A t \in Threads : WF_vars(RuntimeStep(t) \/ CreateLoadStep(t))

\* One host thread creating and loading scripts while the engine hands
\* tasks to the platform and the worker pool and the event loop run them.
TaskNext ==
  \/ /\ CallsBy(MainThread) < MaxThreadCalls
     /\ gum_script_from_string(MainThread, ConcSources, {TRUE})
  \/ /\ CallsBy(MainThread) < MaxThreadCalls
     /\ gum_script_load(MainThread, OwnHandles(MainThread))
  \/ RuntimeStep(MainThread)
  \/ CreateLoadStep(MainThread)
  \/ GumScriptPlatform_CallOnBackgroundThread
  \/ GumScriptPlatform_CallOnForegroundThread
  \/ \E k \in 1..MaxTasks : gum_script_scheduler_run_job(k)
  \/ \E k \in 1..MaxTasks : gum_script_scheduler_destroy_job(k)
  \/ \E k \in 1..MaxTasks : g_main_context_dispatch(k)
  \/ \E k \in 1..MaxTasks : g_source_destroy(k)

TaskSpec == Init /\ [][TaskNext]_vars

\* The worker pool keeps taking and releasing jobs and the event loop
\* keeps iterating.
FairTaskSpec ==
  /\ TaskSpec
  /\ WF_vars(\E k \in 1..MaxTasks : gum_script_scheduler_run_job(k))
  /\ WF_vars(\E k \in 1..MaxTasks : gum_script_scheduler_destroy_job(k))
  /\ WF_vars(\E k \in 1..MaxTasks : g_main_context_dispatch(k))
  /\ WF_vars(\E k \in 1..MaxTasks : g_source_destroy(k))

\* ------------------------------------------- reading an instance's log
\* The first event of kind e after position p of log[i], 0 when none.
NextOf(i, p, e) ==
  LET later == {q \in (p + 1)..Len(log[i]) : log[i][q].e = e} IN
    IF later = {} THEN 0
    ELSE CHOOSE q \in later : \A r \in later : q <= r

\* The events of log[i] from position p to position q.
Segment(i, p, q) == SubSeq(log[i], p, q)

\* What a test double sees of an event: its kind, and for a lifecycle hook
\* the binding it was called on.
Shape(ev) ==
  IF ev.e \in {"init", "realize", "dispose", "finalize"}
  THEN <<ev.e, ev.a>>
  ELSE <<ev.e, 0>>

Shapes(evs) == [k \in DOMAIN evs |-> Shape(evs[k])]

CallsAt(i, e) == {p \in DOMAIN log[i] : log[i][p].e = e}

Compiles(source) == Compile(CombinedSource(source)) = 0

Throws(source) == Run(CombinedSource(source)) # 0

\* The calls a teardown makes, as the specification orders them.
TeardownShape ==
  <<<<"flush", 0>>>>
  \o [k \in 1..NumBindings |-> <<"dispose", NumBindings + 1 - k>>]
  \o <<<<"delete_script", 0>>, <<"delete_context", 0>>>>
  \o [k \in 1..NumBindings |-> <<"finalize", NumBindings + 1 - k>>]

\* The calls a context build of a compiling source makes.
BuildShape ==
  [k \in 1..NumBindings |-> <<"init", k>>]
  \o <<<<"context_new", 0>>>>
  \o [k \in 1..NumBindings |-> <<"realize", k>>]
  \o <<<<"compile", 0>>, <<"script_new", 0>>>>

\* The calls one run of the program inside an Execution Scope makes.
RunShape(source) ==
  <<<<"scope_enter", 0>>, <<"run", 0>>>>
  \o (IF Throws(source) THEN <<<<"emit", 0>>>> ELSE <<>>)
  \o <<<<"scope_exit", 0>>, <<"process_pending", 0>>>>

\* ------------------------------------------------------------- claims
\* C1: for an instance whose source compiles, consecutive loads with no
\* unload between them run the program exactly once: a load that finds the
\* instance not loaded runs the program once and leaves it loaded, a load
\* that finds it loaded calls nothing and leaves it loaded, and two runs of
\* the program are always separated by an unload (or the release) of a
\* loaded instance.
C1_LoadTwiceRunsOnce ==
  \A i \in Instances :
    /\ \A p \in CallsAt(i, "call:load") :
         LET q == NextOf(i, p, "ret:load") IN
           (q # 0 /\ Compiles(priv[i].source)) =>
             /\ log[i][q].a = 1
             /\ IF log[i][p].a = 1
                THEN q = p + 1
                ELSE Cardinality({r \in p..q : log[i][r].e = "run"}) = 1
             /\ (q = Len(log[i]) =>
                   /\ priv[i].loaded
                   /\ priv[i].context # NULL
                   /\ priv[i].raw_script # NULL)
    /\ \A p, q \in CallsAt(i, "run") :
         p < q => \E r \in p..q :
                    /\ log[i][r].e \in {"call:unload", "call:unref"}
                    /\ log[i][r].a = 1

\* C1 witness: a load of a loaded instance has returned.
C1_Witness ==
  \E i \in Instances : \E p \in CallsAt(i, "call:load") :
    /\ log[i][p].a = 1
    /\ NextOf(i, p, "ret:load") # 0

\* C2: an unload of a loaded instance followed by a load makes exactly the
\* calls of a teardown (flush, 11 disposes, the two releases, 11 finalizes)
\* and then those of a build (11 inits, a new context, 11 realizes, the
\* compile) and of one run of the program; the new context is not the old
\* one, the program runs in the new one, and the instance ends loaded with
\* a context and a compiled program.
C2_UnloadLoadRebuilds ==
  \A i \in Instances : \A p \in CallsAt(i, "call:unload") :
    LET q == NextOf(i, p, "ret:unload")
        r == NextOf(i, q, "ret:load")
    IN (/\ log[i][p].a = 1
        /\ q # 0
        /\ q < Len(log[i])
        /\ log[i][q + 1].e = "call:load"
        /\ r # 0) =>
         /\ Shapes(Segment(i, p, r)) =
              <<<<"call:unload", 0>>>> \o TeardownShape
              \o <<<<"ret:unload", 0>>, <<"call:load", 0>>>>
              \o BuildShape \o RunShape(priv[i].source)
              \o <<<<"ret:load", 0>>>>
         /\ log[i][q].a = 0
         /\ log[i][r].a = 1
         /\ LET old == log[i][NextOf(i, p, "delete_context")].a
                new == log[i][NextOf(i, q, "context_new")].a
            IN /\ old # NULL
               /\ new # NULL
               /\ new # old
               /\ log[i][NextOf(i, q, "scope_enter")].a = new
               /\ (r = Len(log[i]) =>
                     /\ priv[i].context = new
                     /\ priv[i].raw_script # NULL
                     /\ priv[i].loaded
                     /\ \A b \in Bindings : priv[i].bindings[b] = "realized")

\* C2 witness: a load that directly follows an unload of a loaded instance
\* has returned.
C2_Witness ==
  \E i \in Instances : \E p \in CallsAt(i, "call:unload") :
    LET q == NextOf(i, p, "ret:unload") IN
      /\ log[i][p].a = 1
      /\ q # 0
      /\ q < Len(log[i])
      /\ log[i][q + 1].e = "call:load"
      /\ NextOf(i, q, "ret:load") # 0

\* The line, within the user's source, of its first character c.
UserLine(source, c) == GetLineNumber(source, FirstPosition(source, c))

\* C3: a gum_script_from_string call that was given an error location
\* returns either a handle whose instance has a context and a compiled
\* program, with no error set, or NULL with an error set whose line is the
\* line of the rejected token within the user's source, which is >= 1;
\* never both and never neither.
C3_CreateHandleOrError ==
  \A t \in Threads :
    (result[t].op = "from_string" /\ result[t].arg.errp) =>
      LET h == result[t].rv
          e == result[t].error
      IN /\ (h # NULL) # e.set
         /\ h # NULL =>
              /\ h = result[t].inst
              /\ obj[h] = "alive"
              /\ priv[h].context # NULL
              /\ priv[h].raw_script # NULL
         /\ e.set =>
              /\ e.line >= 1
              /\ e.line = UserLine(result[t].arg.source, SYNTAX_ERROR)
              /\ obj[result[t].inst] = "freed"

\* C3 witness: a create has failed with an error on the second line of the
\* source.
C3_Witness ==
  \E t \in Threads :
    /\ result[t].op = "from_string"
    /\ result[t].rv = NULL
    /\ result[t].error.set
    /\ result[t].error.line = 2

\* C4: when gum_script_create_context reports a compile failure the
\* instance has no context and no compiled program, loaded is false, every
\* binding has been finalized, and the calls since the failed compile are
\* exactly those of a teardown, so each binding was disposed and finalized
\* as often as it was initialized and realized.
C4_CompileFailureTearsDown ==
  \A t \in Threads :
    pc[t] = "cc_fail" =>
      LET i == self[t]
          c == CHOOSE p \in CallsAt(i, "compile") :
                 \A q \in CallsAt(i, "compile") : q <= p
      IN /\ priv[i].context = NULL
         /\ priv[i].raw_script = NULL
         /\ ~priv[i].loaded
         /\ \A b \in Bindings : priv[i].bindings[b] = "finalized"
         /\ log[i][c].a # 0
         /\ Shapes(Segment(i, c + 1, Len(log[i]))) = TeardownShape
         /\ \A k \in 1..NumBindings :
              \A e \in {"realize", "dispose", "finalize"} :
                Cardinality({p \in CallsAt(i, e) : log[i][p].a = k})
                  = Cardinality({p \in CallsAt(i, "init") : log[i][p].a = k})

\* C4 witness: a context build is about to report a compile failure.
C4_Witness ==
  \E t \in Threads :
    /\ pc[t] = "cc_fail"
    /\ CallsAt(self[t], "realize") # {}

\* C5: every Execution Scope that has been left ran the program once; if
\* the run raised an exception the scope emitted exactly one error message,
\* whose line is the engine's line minus the bootstrap's line count (the
\* line of the throwing statement within the user's source), and if it
\* raised none the scope emitted nothing; either way the host's call goes
\* on to return and no thread of the host has been aborted.
C5_ExceptionBecomesOneMessage ==
  /\ ~Aborted
  /\ \A i \in Instances : \A p \in CallsAt(i, "scope_enter") :
       LET q == NextOf(i, p, "scope_exit") IN
         q # 0 =>
           LET caught == log[i][p + 1].a IN
             /\ log[i][p + 1].e = "run"
             /\ caught = Run(CombinedSource(priv[i].source))
             /\ IF caught # 0
                THEN /\ q = p + 3
                     /\ log[i][p + 2].e = "emit"
                     /\ log[i][p + 2].a
                          = caught - GUM_SCRIPT_RUNTIME_SOURCE_LINE_COUNT
                     /\ log[i][p + 2].a = UserLine(priv[i].source, THROW)
                ELSE q = p + 2
             /\ (q + 1 <= Len(log[i]) => log[i][q + 1].e = "process_pending")
             /\ (q + 2 <= Len(log[i]) => log[i][q + 2].e = "ret:load")
  /\ \A i \in Instances : \A p \in CallsAt(i, "emit") :
       /\ p > 2
       /\ log[i][p - 1].e = "run"
       /\ log[i][p - 2].e = "scope_enter"

\* C5 witness: a load whose program threw on the second line of the source
\* has returned.
C5_Witness ==
  \E i \in Instances : \E p \in CallsAt(i, "emit") :
    /\ log[i][p].a = 2
    /\ NextOf(i, p, "ret:load") # 0

\* C6: every Execution Scope that was entered and whose call has returned
\* was followed by exactly one call of the tracer's process-pending hook,
\* made after the scope was left and after any error message of that scope
\* was emitted; the hook is called nowhere else.
C6_ProcessPendingAfterEveryScope ==
  \A i \in Instances :
    /\ \A p \in CallsAt(i, "scope_enter") :
         LET r == NextOf(i, p, "ret:load") IN
           r # 0 =>
             LET pending == {q \in p..r : log[i][q].e = "process_pending"} IN
               /\ Cardinality(pending) = 1
               /\ \A q \in pending :
                    /\ NextOf(i, p, "scope_exit") < q
                    /\ \A m \in p..r : log[i][m].e = "emit" => m < q
    /\ Cardinality(CallsAt(i, "process_pending"))
         <= Cardinality(CallsAt(i, "scope_enter"))

\* C6 witness: a load whose scope emitted an error message has returned.
C6_Witness ==
  \E i \in Instances : \E p \in CallsAt(i, "scope_enter") :
    LET r == NextOf(i, p, "ret:load") IN
      /\ r # 0
      /\ \E m \in p..r : log[i][m].e = "emit"

\* C7: releasing the last reference of an instance that is still loaded
\* makes exactly the calls of a teardown before dispose completes, and the
\* instance is gone with loaded cleared and no context or compiled program.
C7_DisposeUnloadsFirst ==
  \A i \in Instances : \A p \in CallsAt(i, "call:unref") :
    LET q == NextOf(i, p, "ret:unref") IN
      (log[i][p].a = 1 /\ q # 0) =>
        /\ Shapes(Segment(i, p, q)) =
             <<<<"call:unref", 0>>>> \o TeardownShape
             \o <<<<"ret:unref", 0>>>>
        /\ log[i][q].a = 0
        /\ obj[i] = "freed"
        /\ ~priv[i].loaded
        /\ priv[i].context = NULL
        /\ priv[i].raw_script = NULL
        /\ \A b \in Bindings : priv[i].bindings[b] = "finalized"

\* C7 witness: the release of a loaded instance has completed.
C7_Witness ==
  \E i \in Instances : \E p \in CallsAt(i, "call:unref") :
    /\ log[i][p].a = 1
    /\ NextOf(i, p, "ret:unref") # 0

\* ---------------------------------------------- reading the debug log
DebugCalls(e, d) == {k \in DOMAIN dlog : dlog[k].e = e /\ dlog[k].data = d}

\* The data pointers of the registrations that passed a release callback.
NotifyRegistrations ==
  {dlog[k].data : k \in {j \in DOMAIN dlog : dlog[j].e = "register"}}

\* The data pointers of the registrations that passed none.
PlainRegistrations ==
  {dlog[k].data : k \in {j \in DOMAIN dlog : dlog[j].e = "register_no_notify"}}

\* The registrations that no uninstall has removed yet.
LiveRegistrations ==
  {d \in NotifyRegistrations \cup PlainRegistrations :
     DebugCalls("unregister", d) = {}}

\* C10: over any sequence of gum_script_set_debug_message_handler calls
\* ended by the runtime's teardown, at most one handler is registered at a
\* time (the one the globals hold), the release callback of a registration
\* has been invoked exactly once as soon as the registration has been
\* replaced or removed, in the same step and right after the removal, and
\* not at all while it is still registered; a registration without release
\* callback is never notified; after the teardown no registration is left.
C10_HandlerReleasedExactlyOnce ==
  /\ Cardinality(LiveRegistrations) <= 1
  /\ LiveRegistrations =
       (IF gum_debug_handler # NULL THEN {gum_debug_data} ELSE {})
  /\ \A d \in NotifyRegistrations :
       /\ Cardinality(DebugCalls("register", d)) = 1
       /\ Cardinality(DebugCalls("notify", d))
            = (IF d \in LiveRegistrations THEN 0 ELSE 1)
       /\ \A k \in DebugCalls("notify", d) :
            /\ k > 1
            /\ dlog[k - 1].e = "unregister"
            /\ dlog[k - 1].data = d
  /\ \A d \in PlainRegistrations : DebugCalls("notify", d) = {}
  /\ \A k \in DOMAIN dlog :
       dlog[k].e = "notify" => dlog[k].data \in NotifyRegistrations
  /\ isolate_state = "disposed" => LiveRegistrations = {}

\* C10 witness: after the teardown, two registrations with a release
\* callback have been made and each was released.
C10_Witness ==
  /\ isolate_state = "disposed"
  /\ \E d1, d2 \in NotifyRegistrations :
       /\ d1 # d2
       /\ DebugCalls("notify", d1) # {}
       /\ DebugCalls("notify", d2) # {}

\* ------------------------------------------------ the isolate's Locker
\* The positions inside a region that touches engine state: between taking
\* the Locker and releasing it in gum_script_create_context (building a
\* context), gum_script_destroy_context (disposing the bindings),
\* ScriptScopeImpl (running the program),
\* gum_script_set_debug_message_handler and gum_script_post_debug_message
\* (changing and using the debug session).
EngineRegion ==
  {"cc_init", "cc_context", "cc_realize", "cc_compile", "cc_unlock",
   "dc_dispose", "dc_delete_script", "dc_delete_context", "dc_finalize",
   "dc_loaded", "dc_unlock",
   "ld_run", "scope_dtor", "scope_unlock",
   "sd_uninstall", "sd_install", "sd_unlock",
   "pd_context", "pd_send", "pd_unlock"}

\* The positions of a thread waiting for the Locker.
LockerWait == {"cc_lock", "dc_lock", "scope_enter", "sd_lock", "pd_lock"}

\* The calls into the engine or into a binding that need the isolate.
EngineCalls ==
  {"init", "context_new", "realize", "compile", "script_new", "flush",
   "dispose", "delete_script", "delete_context", "finalize", "scope_enter",
   "run", "emit", "scope_exit"}

\* The calls that change or use the debug session.
DebugEngineCalls ==
  {"register", "register_no_notify", "unregister", "notify", "context",
   "command", "pump", "handler"}

\* The events a step appended to dlog.
DebugAppended == SubSeq(dlog', Len(dlog) + 1, Len(dlog'))

\* The events a step appended to log[i].
Appended(i) == SubSeq(log'[i], Len(log[i]) + 1, Len(log'[i]))

\* A thread is inside a region exactly while it holds the Locker (or was
\* aborted holding it), so at most one thread is inside a region.
LockerInvariant ==
  /\ \A t \in Threads : pc[t] \in EngineRegion => locker = t
  /\ \A t \in Threads :
       locker = t => (pc[t] \in EngineRegion \/ pc[t] = "abort")
  /\ Cardinality({t \in Threads : pc[t] \in EngineRegion}) <= 1

\* Every call into the engine, and every change of the debug session, is
\* made by the thread that holds the Locker before or after the step.
EngineCallsUnderLocker ==
  /\ \A i \in Instances : \A k \in DOMAIN Appended(i) :
       Appended(i)[k].e \in EngineCalls =>
         (locker = Appended(i)[k].t \/ locker' = Appended(i)[k].t)
  /\ \A k \in DOMAIN DebugAppended :
       DebugAppended[k].e \in DebugEngineCalls =>
         (locker = DebugAppended[k].t /\ locker' = locker)

\* C8: under any interleaving of two host threads creating, loading,
\* unloading and releasing scripts and using the debug bridge, a thread is
\* inside a region that touches engine state only while it holds the
\* isolate's Locker, the Locker is released on every exit from a region,
\* at most one thread is inside a region at a time, and every engine call
\* is made by the holder of the Locker.
C8_EngineRegionsExclusive ==
  /\ []LockerInvariant
  /\ [][EngineCallsUnderLocker]_vars

\* C8 witness: one thread is inside a region while the other waits for
\* the Locker.
C8_Witness ==
  \E t, u \in Threads :
    /\ pc[t] \in EngineRegion
    /\ pc[u] \in LockerWait

\* The thread that takes the step.
Stepping(t) == pc'[t] # pc[t] \/ ret'[t] # ret[t]

\* No call touches an instance of the other thread: every collaborator call
\* on an instance is made by the thread that created it, the program runs
\* in a context built for its own instance, no two instances share a
\* context or a compiled program, an instance whose load has returned ran
\* its program exactly once, and no thread was aborted.
LoadIsolation ==
  /\ ~Aborted
  /\ \A i \in Instances :
       /\ \A k \in DOMAIN log[i] : log[i][k].t = owner[i]
       /\ \A k \in CallsAt(i, "scope_enter") :
            /\ log[i][k].a # NULL
            /\ \E m \in CallsAt(i, "context_new") : log[i][m].a = log[i][k].a
       /\ CallsAt(i, "ret:load") # {} =>
            /\ Cardinality(CallsAt(i, "run")) = 1
            /\ Cardinality(CallsAt(i, "context_new")) = 1
            /\ priv[i].loaded
       /\ \A j \in Instances \ {i} :
            /\ priv[i].context # NULL => priv[i].context # priv[j].context
            /\ priv[i].raw_script # NULL =>
                 priv[i].raw_script # priv[j].raw_script

\* A step changes the fields of an instance only when the thread that
\* created the instance takes it.
OwnFieldsOnly ==
  \A i \in Instances :
    priv'[i] # priv[i] => \A t \in Threads : Stepping(t) => owner'[i] = t

\* C9: two host threads that call gum_script_load concurrently, each on an
\* instance it created, never block each other for ever: under fair
\* scheduling every call returns; each program has then run exactly once,
\* and each call touched only its own instance.
C9_ConcurrentLoadsComplete ==
  /\ []LoadIsolation
  /\ [][OwnFieldsOnly]_vars
  /\ \A t \in Threads : (op[t] = "load") ~> (pc[t] = "idle")

\* C9 witness: both threads are inside gum_script_load at once, one running
\* its program and the other waiting for the Locker.
C9_Witness ==
  \E t, u \in Threads :
    /\ op[t] = "load" /\ pc[t] = "ld_run"
    /\ op[u] = "load" /\ pc[u] = "scope_enter"

\* --------------------------------------------- posting a debug command
\* The positions of the gum_script_post_debug_message calls in dlog.
PostCalls == {k \in DOMAIN dlog : dlog[k].e = "post_debug"}

\* The events of dlog after the call at position k, up to the next call.
PostSegment(k) ==
  LET later == {q \in PostCalls : q > k}
      stop == IF later = {} THEN Len(dlog) + 1
              ELSE CHOOSE q \in later : \A r \in later : q <= r
      mine == {q \in (k + 1)..(stop - 1) :
                 dlog[q].e \in {"context", "command", "pump", "handler",
                                "ret:post_debug"}}
  IN [e \in {"context", "command", "pump", "handler", "ret:post_debug"} |->
        {q \in mine : dlog[q].e = e}]

OnceInvariant ==
  /\ isolates <= 1
  /\ destructors = isolates
  /\ (init_once = "READY") = (isolates = 1)
  /\ init_once = "READY" => once_retval = 1
  /\ init_once # "READY" =>
       /\ once_retval = NULL
       /\ gum_platform = NULL
       /\ isolate_state = "none"
  /\ Cardinality({t \in Threads : pc[t] = "do_init"}) <= 1
  /\ (init_once = "PROGRESS") = (\E t \in Threads : pc[t] = "do_init")
  /\ \A i \in Instances : priv[i].isolate \in {NULL, 1}

\* A caller leaves gum_script_runtime_get_isolate only once the initializer
\* has completed, and with the isolate the initializer made.
ReturnsAfterInit ==
  \A t \in Threads :
    (pc[t] \in {"get_isolate", "do_init"}
       /\ pc'[t] \notin {"get_isolate", "do_init"}) =>
      /\ init_once' = "READY"
      /\ isolates' = 1
      /\ rv'[t] = once_retval'
      /\ rv'[t] = 1

\* C12: with host threads calling gum_script_runtime_get_isolate
\* concurrently, gum_script_runtime_do_init runs exactly once, no caller
\* returns before it has completed, every caller receives the same isolate,
\* and the destructor is registered exactly once: at most one isolate is
\* ever created.
C12_InitializerRunsOnce ==
  /\ []OnceInvariant
  /\ [][ReturnsAfterInit]_vars

\* C12 witness: one thread is inside the initializer while the other is
\* blocked in g_once.
C12_Witness ==
  \E t, u \in Threads :
    /\ pc[t] = "do_init"
    /\ pc[u] = "get_isolate"
    /\ init_once = "PROGRESS"

\* ------------------------------------ context and program go together
\* The positions of gum_script_create_context and
\* gum_script_destroy_context.
ContextSteps ==
  {"cc_assert", "cc_lock", "cc_init", "cc_context", "cc_realize",
   "cc_compile", "cc_unlock", "cc_check", "cc_fail",
   "dc_assert", "dc_lock", "dc_dispose", "dc_delete_script",
   "dc_delete_context", "dc_finalize", "dc_loaded", "dc_unlock"}

\* No thread is inside a context build or a teardown of instance i.
ContextAtRest(i) ==
  \A t \in Threads : self[t] = i => pc[t] \notin ContextSteps

\* C13: whenever no gum_script_create_context or
\* gum_script_destroy_context is in progress on an instance, after any
\* sequence of create, load, unload and unref calls, the instance's
\* context and its compiled program are both present or both absent.
C13_ContextAndProgramTogether ==
  \A i \in Instances :
    (obj[i] # "none" /\ ContextAtRest(i)) =>
      (priv[i].context # NULL) = (priv[i].raw_script # NULL)

\* C13 witness: with the host idle, one instance holds a context and a
\* program and the other holds neither after its teardown.
C13_Witness ==
  /\ \A t \in Threads : pc[t] = "idle"
  /\ \E i, j \in Instances :
       /\ obj[i] = "alive" /\ obj[j] = "alive"
       /\ priv[i].context # NULL /\ priv[i].raw_script # NULL
       /\ priv[j].context = NULL /\ priv[j].raw_script = NULL
       /\ CallsAt(j, "delete_context") # {}

\* ------------------------------------------- loaded needs a program
\* The last event of one of the kinds es before position p of log[i],
\* 0 when none.
LastOf(i, p, es) ==
  LET earlier == {q \in 1..(p - 1) : log[i][q].e \in es} IN
    IF earlier = {} THEN 0
    ELSE CHOOSE q \in earlier : \A r \in earlier : r <= q

\* C14: in every state reached by create, load, unload and unref calls, an
\* instance whose loaded flag is set holds a compiled program and its
\* context.  Every load that returns with the flag set returns with a live
\* program, and a load whose context rebuild failed to compile returns
\* with the flag clear and without having run the program.
C14_LoadedImpliesProgram ==
  \A i \in Instances :
    /\ priv[i].loaded =>
         (priv[i].raw_script # NULL /\ priv[i].context # NULL)
    /\ \A p \in CallsAt(i, "ret:load") :
         LET c == LastOf(i, p, {"call:load"})
             made == LastOf(i, p, {"script_new", "delete_script"})
             failed == {q \in (c + 1)..(p - 1) :
                          log[i][q].e = "compile" /\ log[i][q].a # 0}
             ran == {q \in (c + 1)..(p - 1) : log[i][q].e = "run"}
         IN /\ c > 0
            /\ log[i][p].a = 1 =>
                 (made > 0 /\ log[i][made].e = "script_new")
            /\ failed # {} => (log[i][p].a = 0 /\ ran = {})

\* C14 witness: an instance is loaded again after an unload, with the
\* program of its rebuilt context, and the load has returned.
C14_Witness ==
  \E i \in Instances :
    /\ priv[i].loaded
    /\ priv[i].raw_script # NULL
    /\ CallsAt(i, "delete_script") # {}
    /\ log[i][Len(log[i])].e = "ret:load"
    /\ log[i][Len(log[i])].a = 1

\* ------------------------------------------ the order of the bindings
\* The calls that make up the lifecycle of an instance's bindings and
\* context.
LifecycleCalls ==
  {"init", "context_new", "realize", "flush", "dispose", "delete_script",
   "delete_context", "finalize"}

IsLifecycleCall(ev) == ev.e \in LifecycleCalls

\* The lifecycle calls made on instance i so far, in order.
Lifecycle(i) == Shapes(SelectSeq(log[i], IsLifecycleCall))

\* One build followed by one teardown, in the order the claim states:
\* init on core ... instruction, the context, realize on core ...
\* instruction; the flush of core, dispose on instruction ... core, the
\* release of the program and of the context, finalize on
\* instruction ... core.
LifecycleCycle ==
  [k \in 1..NumBindings |-> <<"init", k>>]
  \o <<<<"context_new", 0>>>>
  \o [k \in 1..NumBindings |-> <<"realize", k>>]
  \o TeardownShape

\* C15: the lifecycle calls of one instance follow the fixed sequence:
\* a build calls init on the 11 bindings in declaration order, creates the
\* context, and calls realize on the 11 in the same order; a teardown
\* flushes core, calls dispose on the 11 in the reverse order, releases
\* the program and the context, and only then calls finalize on the 11 in
\* the reverse order; builds and teardowns alternate.
C15_BindingOrder ==
  \A i \in Instances :
    \A k \in DOMAIN Lifecycle(i) :
      Lifecycle(i)[k] = LifecycleCycle[((k - 1) % Len(LifecycleCycle)) + 1]

\* C15 witness: an instance was built, torn down and built again.
C15_Witness ==
  \E i \in Instances :
    Len(Lifecycle(i)) = Len(LifecycleCycle) + 2 * NumBindings + 1

\* -------------------------------------------------- the tasks' lives
\* What was called on a task so far is the beginning of: run, dispose.
TaskLife(task) ==
  \/ task.events = <<>>
  \/ task.events = <<"run">>
  \/ task.events = <<"run", "dispose">>

\* A foreground task sits on the event loop captured by
\* gum_script_runtime_do_init, at high priority; a background task is a
\* job of the scheduler.
TaskPlacement(task) ==
  IF task.kind = "foreground"
  THEN /\ isolate_state = "entered" =>
            task.context = gum_platform.main_context
       /\ task.context \in Threads
       /\ task.priority = "G_PRIORITY_HIGH"
  ELSE task.context = NoThread

\* Every task is run at most once, disposed at most once and only after
\* its run; a task that ran is no longer attached to the event loop.
TaskInvariant ==
  \A k \in DOMAIN tasks :
    /\ TaskLife(tasks[k])
    /\ TaskPlacement(tasks[k])
    /\ tasks[k].events # <<>> => tasks[k].state \notin {"attached", "queued"}
    /\ (tasks[k].state = "destroyed") = (tasks[k].events = <<"run", "dispose">>)

\* C16: every task the engine hands to the platform, in the background or
\* in the foreground, is run at most once, disposed at most once and never
\* run after it was disposed; with a worker pool and an event loop that keep
\* running, every task is eventually run once and then disposed.  A
\* foreground task is an idle source of high priority on the main context
\* captured at initialization and is not dispatched again after it ran.
C16_TaskRunOnceDisposedOnce ==
  /\ []TaskInvariant
  /\ \A k \in 1..MaxTasks :
       (Len(tasks) >= k) ~>
         (Len(tasks) >= k /\ tasks[k].events = <<"run", "dispose">>)

\* C16 witness: a background task and a foreground task were both run and
\* disposed while a third task still waits.
C16_Witness ==
  \E a, b, c \in DOMAIN tasks :
    /\ tasks[a].kind = "background" /\ tasks[a].state = "destroyed"
    /\ tasks[b].kind = "foreground" /\ tasks[b].state = "destroyed"
    /\ tasks[c].state \in {"queued", "attached"}

\* ------------------------------------------------ leak-free teardown
\* C17: when an instance is destroyed, after any sequence of create, load
\* and unload calls (a create never followed by a load included), no
\* context and no compiled program remains and every binding that was
\* initialized has been disposed and finalized.
C17_TeardownLeakFree ==
  \A i \in Instances :
    obj[i] = "freed" =>
      /\ priv[i].context = NULL
      /\ priv[i].raw_script = NULL
      /\ \A b \in Bindings : priv[i].bindings[b] \in {"uninit", "finalized"}
      /\ Cardinality(CallsAt(i, "context_new"))
           = Cardinality(CallsAt(i, "delete_context"))

\* --------------------------------------------- one binding's lifecycle
\* The hooks of a binding, in the order of one life.
HookCycle == <<"init", "realize", "dispose", "finalize">>

\* The hooks called so far on binding number b of instance i, in order.
HooksOn(i, b) ==
  LET on(ev) == ev.e \in {"init", "realize", "dispose", "finalize"}
                  /\ ev.a = b
      called == SelectSeq(log[i], on)
  IN [k \in DOMAIN called |-> called[k].e]

\* The state a binding must be in when a hook is called on it.
HookNeeds(e) ==
  CASE e = "init" -> {"uninit", "finalized"}
    [] e = "realize" -> {"init"}
    [] e = "dispose" -> {"realized"}
    [] e = "finalize" -> {"disposed"}

\* The hooks called on the bindings of an instance repeat init, realize,
\* dispose, finalize, and no assertion has failed.
HookCycles ==
  /\ ~Aborted
  /\ \A i \in Instances : \A b \in 1..NumBindings :
       \A k \in DOMAIN HooksOn(i, b) :
         HooksOn(i, b)[k] = HookCycle[((k - 1) % 4) + 1]

\* A step calls a hook only on a binding in the state the hook needs: init
\* on a binding that is not initialized, dispose on a realized one and
\* finalize on a disposed one.
HookPreconditions ==
  \A i \in Instances : \A k \in DOMAIN Appended(i) :
    Appended(i)[k].e \in {"init", "realize", "dispose", "finalize"} =>
      priv[i].bindings[BindingOrder[Appended(i)[k].a]]
        \in HookNeeds(Appended(i)[k].e)

\* C18: over any sequence of create, load, unload and unref calls made one
\* at a time, the lifecycle calls of each of the 11 bindings of an instance
\* repeat init, realize, dispose, finalize in that order: init is never
\* called on a binding that is initialized and not yet finalized, dispose
\* and finalize never on a binding that is not initialized and realized,
\* and the assertions of the build and of the teardown never fail.
C18_BindingLifecycle ==
  /\ []HookCycles
  /\ [][HookPreconditions]_vars

\* C18 witness: the bindings of an instance are in their second life: they
\* were finalized by a teardown and are realized again.
C18_Witness ==
  \E i \in Instances :
    /\ \A b \in Bindings : priv[i].bindings[b] = "realized"
    /\ \A b \in 1..NumBindings : Len(HooksOn(i, b)) = 6

\* ----------------------------- load and unload of one shared instance
\* Two calls of kind e on instance i always have a call of kind d between.
Separated(i, e, d) ==
  \A p, q \in CallsAt(i, e) :
    p < q => \E r \in CallsAt(i, d) : p < r /\ r < q

\* C19: with gum_script_load and gum_script_unload called concurrently on
\* the same instance from different host threads, between two teardowns
\* the compiled program is run at most once and the context is built at
\* most once, and an Execution Scope is never entered for an instance
\* whose context is absent.
C19_SharedInstanceIdempotent ==
  \A i \in Instances :
    /\ Separated(i, "run", "delete_script")
    /\ Separated(i, "context_new", "delete_context")
    /\ \A p \in CallsAt(i, "scope_enter") : log[i][p].a # NULL

\* ------------------------------- the debug session under concurrency
\* C20: under any interleaving of gum_script_set_debug_message_handler and
\* gum_script_post_debug_message on different threads, the retained debug
\* context is present exactly when a handler is registered, and a posted
\* command uses the debug context, and the dispatcher the handler, only
\* while a handler is registered, never after a concurrent unregister
\* released them.
C20_DebugSessionConsistent ==
  /\ (gum_debug_context # NULL) = (gum_debug_handler # NULL)
  /\ (v8_message_handler # "nullptr") = (gum_debug_handler # NULL)
  /\ \A k \in DOMAIN dlog :
       /\ dlog[k].e = "context" => dlog[k].data # NULL
       /\ dlog[k].e = "handler" => dlog[k].data # NULL
       /\ dlog[k].e = "command" =>
            \E j \in 1..(k - 1) :
              /\ dlog[j].e = "context"
              /\ dlog[j].t = dlog[k].t
              /\ dlog[j].data # NULL
              /\ \A m \in (j + 1)..(k - 1) : dlog[m].e # "unregister"
====
